---- MODULE Spec2Model ----
(***************************************************************************)
(* Model of src/monitor.py: one monitoring run is                          *)
(*   fetch_html (3 attempts, sleep 2*(i+1) after every failure)            *)
(*   -> parse_ids_and_count -> load_state -> baseline branch               *)
(*      (save_state, then tg_send) or update branch (diff, tg_send if      *)
(*      there is something to report, then save_state).                    *)
(* The state file, the remote page and the Telegram endpoint are the       *)
(* environment: the page served and the success of every network call are  *)
(* chosen nondeterministically.                                            *)
(*                                                                         *)
(* Python values: None and "absent" are the empty tuple, a present value x *)
(* is <<x>>.  A listing id is the digit string the regular expression      *)
(* captured, kept as the sequence of its digits.  A dict is a function     *)
(* whose domain is its set of keys.  The key last_checked_epoch            *)
(* (int(time.time())) is left out of the persisted dict: nothing in the    *)
(* program reads it back.                                                  *)
(***************************************************************************)
EXTENDS Integers, Sequences, FiniteSets, TLC

\* ------------------------------------------------------------- bounds
\* Largest number of accommodation links on a served page.
MaxLinks == 2
\* Largest result count a served page displays.
MaxCount == 1

\* range(3) in fetch_html
MaxAttempts == 3
\* the factor of time.sleep(2 * (i + 1))
BackoffUnit == 2

\* Runs of main(); the serialized specification uses only run 1.
Procs == {1, 2}

\* Digit strings the page may carry as listing ids: "2", "10" and "02"
\* (numeric order differs from lexical order, and two ids share a value).
IdUniverse == {<<2>>, <<1, 0>>, <<0, 2>>}

\* Causes of a failed HTTP request (timeout, bad status).
Causes == {"timeout", "http_5xx"}

\* ------------------------------------------------------------- python values
None == <<>>

Some(x) == <<x>>

IsNone(v) == v = <<>>

\* dict.get(key, default)
Get(d, key, default) == IF key \in DOMAIN d THEN d[key] ELSE default

\* d[key] = value
Put(d, key, value) == (key :> value) @@ d

\* int(s) for a digit string s
RECURSIVE IntOf(_)
IntOf(s) ==
    IF Len(s) = 0 THEN 0
    ELSE 10 * IntOf(SubSeq(s, 1, Len(s) - 1)) + s[Len(s)]

\* set(list)
SetOf(seq) == {seq[k] : k \in DOMAIN seq}

\* All enumerations of the set S without repetition (iteration orders of a set).
Orders(S) ==
    {q \in [1..Cardinality(S) -> S] : \A a, b \in 1..Cardinality(S) : a # b => q[a] # q[b]}

\* Lexical order of two digit strings (the order of sorted() without key=int).
LexLeq(a, b) ==
    \E k \in 1..(Len(a) + 1) :
        /\ \A j \in 1..(k - 1) : j <= Len(b) /\ a[j] = b[j]
        /\ \/ k = Len(a) + 1
           \/ k <= Len(b) /\ a[k] < b[k]

\* Sorted with the key dropped: sorted(S).
SortedLexical(S) ==
    {q \in Orders(S) : \A a, b \in 1..Cardinality(S) : a < b => LexLeq(q[a], q[b])}

\* sorted(S, key=int): a stable sort of the set's iteration order, which
\* Python leaves unspecified; every order that is non-decreasing in int()
\* is a possible result.
Sorted(S) ==
    {q \in Orders(S) : \A a, b \in 1..Cardinality(S) : a < b => IntOf(q[a]) <= IntOf(q[b])}

SeqsUpTo(S, n) == UNION {[1..k -> S] : k \in 0..n}

\* ------------------------------------------------------------- environment
CountOpts == {None} \cup {Some(n) : n \in 0..MaxCount}

\* A page: the ids of its accommodation links in document order, and the
\* number of the "N logement(s) trouve" banner when there is one.
Pages == [hrefs : SeqsUpTo(IdUniverse, MaxLinks), banner : CountOpts]

\* The state file: missing, not JSON, or a JSON document.
Absent == [kind |-> "absent"]

Garbage == [kind |-> "garbage"]

Json(value) == [kind |-> "json", value |-> value]

\* The file right after open(STATE_FILE, "w"): empty.
Truncated == [kind |-> "truncated"]

\* The file when only a part of the text of json.dump has reached it.
Partial == [kind |-> "partial"]

\* The JSON object {} : a record that has none of the schema's fields.
EmptyObject == Json(<<>>)

\* file: the content of STATE_FILE.
\* run:  for each process, the locals of its run of main() (see IdleRun).
\* prev: the snapshot the previous run extracted (None when that run ended
\*       in fetch_html); only the properties read it.
\* hist: what has happened over all runs so far (see Hist0); only the
\*       properties read it.
VARIABLES file, run, prev, hist

vars == <<file, run, prev, hist>>

\* ------------------------------------------------------------- pure functions
\* parse_ids_and_count
parse_ids_and_count(html) ==
    [ids |-> SetOf(html.hrefs), count |-> html.banner]

\* the default of load_state when the file does not exist
DefaultState ==
    [initialized |-> FALSE, seen_ids |-> <<>>, last_count |-> None]

\* Backoff that does not grow: time.sleep(2).
BackoffFlat(i) == BackoffUnit

\* time.sleep(2 * (i + 1))
Backoff(i) == BackoffUnit * (i + 1)

\* the f-string of the baseline message
BaselineMsg(ids_now, count_now) ==
    [kind |-> "initialized",
     listings |-> IF ~IsNone(count_now) THEN count_now[1] ELSE Cardinality(ids_now)]

\* The condition with the comparison of the two counts dropped.
CountChangedNoCompare(count_old, count_now) ==
    /\ ~IsNone(count_now)
    /\ ~IsNone(count_old)

\* the condition of the "Result count changed" part
CountChanged(count_old, count_now) ==
    /\ ~IsNone(count_now)
    /\ ~IsNone(count_old)
    /\ count_now # count_old

\* The parts with the removed ids reported before the new ones.
PartsRemovedFirst(count_old, count_now, new_ids, removed_ids) ==
    (IF CountChanged(count_old, count_now)
        THEN <<[kind |-> "count", old |-> count_old[1], new |-> count_now[1]]>>
        ELSE <<>>)
    \o (IF removed_ids # <<>>
        THEN <<[kind |-> "gone", n |-> Len(removed_ids), ids |-> removed_ids]>>
        ELSE <<>>)
    \o (IF new_ids # <<>>
        THEN <<[kind |-> "new", n |-> Len(new_ids), links |-> new_ids]>>
        ELSE <<>>)

\* parts, built in the order count, new, removed
Parts(count_old, count_now, new_ids, removed_ids) ==
    (IF CountChanged(count_old, count_now)
        THEN <<[kind |-> "count", old |-> count_old[1], new |-> count_now[1]]>>
        ELSE <<>>)
    \o (IF new_ids # <<>>
        THEN <<[kind |-> "new", n |-> Len(new_ids), links |-> new_ids]>>
        ELSE <<>>)
    \o (IF removed_ids # <<>>
        THEN <<[kind |-> "gone", n |-> Len(removed_ids), ids |-> removed_ids]>>
        ELSE <<>>)

UpdateMsg(parts) == [kind |-> "update", parts |-> parts]

\* The assignments with the flag reset: state["initialized"] = False.
NewStateResetFlag(state, seen, count_now) ==
    Put(Put(Put(state, "seen_ids", seen), "last_count", count_now), "initialized", FALSE)

\* the assignments to state before save_state
NewState(state, seen, count_now) ==
    Put(Put(state, "seen_ids", seen), "last_count", count_now)

\* ------------------------------------------------------------- state
\* The locals of one run of main() and of the fetch_html call inside it.
\* requests, failures, served, sent, loads, saves, diffed, file0 and repeat record what
\* the run did (requests made, messages handed to tg_send, calls of
\* load_state and save_state); the program does not read them.
IdleRun ==
    [pc |-> "idle", i |-> 0, last |-> None, waits |-> <<>>,
     requests |-> 0, failures |-> <<>>, served |-> None, html |-> None,
     ids_now |-> {}, count_now |-> None,
     state |-> None, ids_old |-> {}, count_old |-> None, initialized |-> FALSE,
     new_ids |-> <<>>, removed_ids |-> <<>>, parts |-> <<>>,
     sent |-> <<>>, loads |-> 0, saves |-> 0, diffed |-> FALSE,
     exc |-> None, file0 |-> Absent, repeat |-> FALSE]

\* The record of what the runs did, kept for the properties:
\*   starts     runs started (counted only where the number of runs is bounded)
\*   priorLoad  a run that has ended had loaded the record successfully
\*   baselines  baseline messages handed to tg_send, counted up to 2
\*   pending    the report of the latest run when its update message failed,
\*              kept while the next run goes on with the same snapshot
\*   overlap    the latest run started while another run was under way
\*   lastFetch  the process of the latest successful fetch_html (0: none)
\*   lastSave   the process of the latest save_state (0: none)
\*   version    calls of save_state so far (counted like starts)
\*   seen       for each process, the version its latest load_state read
Hist0 ==
    [starts |-> 0, priorLoad |-> FALSE, baselines |-> 0, pending |-> None,
     overlap |-> FALSE, lastFetch |-> 0, lastSave |-> 0,
     version |-> 0, seen |-> [p \in Procs |-> 0]]

Init ==
    /\ file \in {Absent, Garbage, EmptyObject}
    /\ run = [p \in Procs |-> IdleRun]
    /\ prev = None
    /\ hist = Hist0

Ended(p) == run[p].pc \in {"idle", "done", "failed"}

\* ------------------------------------------------------------- main()
\* The scheduler starts main(); fetch_html sets last = None and enters its loop.
Start(p) ==
    /\ Ended(p)
    /\ run' = [run EXCEPT ![p] = [IdleRun EXCEPT !.pc = "fetch", !.file0 = file]]
    /\ UNCHANGED <<file, prev>>

\* One iteration of the loop of fetch_html whose request succeeds:
\* return r.text.
FetchOk(p) ==
    /\ run[p].pc = "fetch"
    /\ run[p].i < MaxAttempts
    /\ \E page \in Pages :
          run' = [run EXCEPT ![p].requests = @ + 1,
                             ![p].served = Some(page),
                             ![p].html = Some(page),
                             ![p].pc = "parse"]
    /\ UNCHANGED <<file, prev>>

\* Raising the first failure instead of the last.
RaisedFirst(r) == Some(r.failures[1])

\* What fetch_html raises once the loop is over.
Raised(r) == r.last

\* One iteration whose request fails: last = e, sleep, next i; after the
\* last iteration the loop ends and raise last leaves main().
FetchFail(p) ==
    /\ run[p].pc = "fetch"
    /\ run[p].i < MaxAttempts
    /\ \E cause \in Causes :
          LET r1 == [run[p] EXCEPT !.requests = @ + 1,
                                   !.last = Some(cause),
                                   !.failures = Append(@, cause),
                                   !.waits = Append(@, Backoff(run[p].i)),
                                   !.i = @ + 1]
          IN  IF r1.i < MaxAttempts
              THEN /\ run' = [run EXCEPT ![p] = r1]
                   /\ prev' = prev
              ELSE /\ run' = [run EXCEPT ![p] =
                                [r1 EXCEPT !.pc = "failed",
                                           !.exc = Some([type |-> "fetch",
                                                         cause |-> Raised(r1)[1]])]]
                   /\ prev' = None
    /\ UNCHANGED file

\* ids_now, count_now = parse_ids_and_count(html)
Parse(p) ==
    /\ run[p].pc = "parse"
    /\ LET snap == parse_ids_and_count(run[p].html[1])
       IN  /\ run' = [run EXCEPT ![p].ids_now = snap.ids,
                                 ![p].count_now = snap.count,
                                 ![p].repeat = (prev = Some(snap)),
                                 ![p].pc = "load"]
           /\ prev' = Some(snap)
    /\ UNCHANGED file

\* load_state(): the default when the file is missing, else json.load.
\* The result is None when json.load raises.
load_state(f) ==
    IF f.kind = "absent" THEN Some(DefaultState)
    ELSE IF f.kind = "json" THEN Some(f.value)
    ELSE None

\* state = load_state() and the three reads of it.
Load(p) ==
    /\ run[p].pc = "load"
    /\ LET got == load_state(file)
       IN  IF IsNone(got)
           THEN run' = [run EXCEPT ![p].loads = @ + 1,
                                   ![p].pc = "failed",
                                   ![p].exc = Some([type |-> "state", cause |-> "json"])]
           ELSE LET state == got[1]
                IN  run' = [run EXCEPT
                              ![p].loads = @ + 1,
                              ![p].state = Some(state),
                              ![p].ids_old = SetOf(Get(state, "seen_ids", <<>>)),
                              ![p].count_old = Get(state, "last_count", None),
                              ![p].initialized = Get(state, "initialized", FALSE),
                              ![p].pc = "branch"]
    /\ UNCHANGED <<file, prev>>

\* save_state(state)
save_state(state) == Json(state)

\* The baseline branch going on to the message without writing the file.
BaselineNoSave(p) ==
    /\ run[p].pc = "branch"
    /\ ~run[p].initialized
    /\ run' = [run EXCEPT ![p].pc = "baseline_send"]
    /\ UNCHANGED <<file, prev>>

\* The baseline branch without state["initialized"] = True.
BaselineSaveNoFlag(p) ==
    /\ run[p].pc = "branch"
    /\ ~run[p].initialized
    /\ \E seen \in Sorted(run[p].ids_now) :
          LET state == NewState(run[p].state[1], seen, run[p].count_now)
          IN  /\ file' = save_state(state)
              /\ run' = [run EXCEPT ![p].state = Some(state),
                                    ![p].saves = @ + 1,
                                    ![p].pc = "baseline_send"]
    /\ UNCHANGED prev

\* if not initialized: build the baseline state and save it.
BaselineSave(p) ==
    /\ run[p].pc = "branch"
    /\ ~run[p].initialized
    /\ \E seen \in Sorted(run[p].ids_now) :
          LET state == NewState(Put(run[p].state[1], "initialized", TRUE),
                                seen, run[p].count_now)
          IN  /\ file' = save_state(state)
              /\ run' = [run EXCEPT ![p].state = Some(state),
                                    ![p].saves = @ + 1,
                                    ![p].pc = "baseline_send"]
    /\ UNCHANGED prev

\* tg_send with the failure swallowed (no raise_for_status).
tg_sendQuiet(r, text, ok, next) ==
    [r EXCEPT !.sent = Append(@, [text |-> text, ok |-> ok]),
              !.pc = next]

\* tg_send(text): the request is made once; raise_for_status raises or not.
tg_send(r, text, ok, next) ==
    [r EXCEPT !.sent = Append(@, [text |-> text, ok |-> ok]),
              !.pc = IF ok THEN next ELSE "failed",
              !.exc = IF ok THEN None ELSE Some([type |-> "notify", cause |-> "http"])]

\* tg_send(msg); return
BaselineSend(p) ==
    /\ run[p].pc = "baseline_send"
    /\ \E ok \in BOOLEAN :
          run' = [run EXCEPT ![p] =
                    tg_send(run[p], BaselineMsg(run[p].ids_now, run[p].count_now),
                            ok, "done")]
    /\ UNCHANGED <<file, prev>>

\* new_ids, removed_ids and parts of the update branch.
Diff(p) ==
    /\ run[p].pc = "branch"
    /\ run[p].initialized
    /\ \E new_ids \in Sorted(run[p].ids_now \ run[p].ids_old),
          removed_ids \in Sorted(run[p].ids_old \ run[p].ids_now) :
          run' = [run EXCEPT ![p].new_ids = new_ids,
                             ![p].removed_ids = removed_ids,
                             ![p].parts = Parts(run[p].count_old, run[p].count_now,
                                                new_ids, removed_ids),
                             ![p].diffed = TRUE,
                             ![p].pc = "update_send"]
    /\ UNCHANGED <<file, prev>>

\* The update message sent without the test of parts.
UpdateSendAlways(p) ==
    /\ run[p].pc = "update_send"
    /\ \E ok \in BOOLEAN :
          run' = [run EXCEPT ![p] =
                    tg_send(run[p], UpdateMsg(run[p].parts), ok, "update_save")]
    /\ UNCHANGED <<file, prev>>

\* if parts: tg_send(...)
UpdateSend(p) ==
    /\ run[p].pc = "update_send"
    /\ IF run[p].parts # <<>>
       THEN \E ok \in BOOLEAN :
               run' = [run EXCEPT ![p] =
                         tg_send(run[p], UpdateMsg(run[p].parts), ok, "update_save")]
       ELSE run' = [run EXCEPT ![p].pc = "update_save"]
    /\ UNCHANGED <<file, prev>>

\* The update branch returning without save_state.
UpdateNoSave(p) ==
    /\ run[p].pc = "update_save"
    /\ run' = [run EXCEPT ![p].pc = "done"]
    /\ UNCHANGED <<file, prev>>

\* The update branch storing the new ids on top of the old ones.
UpdateSaveMerge(p) ==
    /\ run[p].pc = "update_save"
    /\ \E seen \in Sorted(run[p].ids_now \cup run[p].ids_old) :
          LET state == NewState(run[p].state[1], seen, run[p].count_now)
          IN  /\ file' = save_state(state)
              /\ run' = [run EXCEPT ![p].state = Some(state),
                                    ![p].saves = @ + 1,
                                    ![p].pc = "done"]
    /\ UNCHANGED prev

\* the last four lines of main(): store the snapshot and save.
UpdateSave(p) ==
    /\ run[p].pc = "update_save"
    /\ \E seen \in Sorted(run[p].ids_now) :
          LET state == NewState(run[p].state[1], seen, run[p].count_now)
          IN  /\ file' = save_state(state)
              /\ run' = [run EXCEPT ![p].state = Some(state),
                                    ![p].saves = @ + 1,
                                    ![p].pc = "done"]
    /\ UNCHANGED prev

\* The report of a run as the reader of the message sees it.
Delta(r) ==
    [added |-> SetOf(r.new_ids), removed |-> SetOf(r.removed_ids),
     count |-> {<<r.parts[k].old, r.parts[k].new>> :
                   k \in {j \in DOMAIN r.parts : r.parts[j].kind = "count"}}]

Bump(n) == IF n < 2 THEN n + 1 ELSE n

\* hist after a step, read off the step of the one process that moved.
Observe(counting) ==
    LET started   == {p \in Procs : Ended(p) /\ run'[p].pc = "fetch"}
        fetched   == {p \in Procs : run[p].pc = "fetch" /\ run'[p].pc = "parse"}
        loaded    == {p \in Procs : Ended(p) /\ ~IsNone(run[p].state)}
        saved     == {p \in Procs : ~Ended(p) /\ run'[p].saves > run[p].saves}
        greeted   == {p \in Procs : /\ run[p].pc = "baseline_send"
                                    /\ Len(run'[p].sent) > Len(run[p].sent)}
        lostAlert == {p \in Procs : /\ run[p].pc = "update_send"
                                    /\ run'[p].pc = "failed"
                                    /\ Len(run'[p].sent) > Len(run[p].sent)}
        finished  == {p \in Procs : ~Ended(p) /\ run'[p].pc \in {"done", "failed"}}
        changed   == {p \in Procs : run[p].pc = "parse" /\ ~run'[p].repeat}
        read      == {p \in Procs : run[p].pc = "load" /\ run'[p].pc = "branch"}
    IN  hist' =
          [starts    |-> IF counting /\ started # {} THEN hist.starts + 1 ELSE hist.starts,
           priorLoad |-> hist.priorLoad \/ (started # {} /\ loaded # {}),
           baselines |-> IF greeted # {} THEN Bump(hist.baselines) ELSE hist.baselines,
           pending   |-> IF lostAlert # {}
                         THEN Some(Delta(run'[CHOOSE p \in lostAlert : TRUE]))
                         ELSE IF finished # {} \/ changed # {} THEN None ELSE hist.pending,
           overlap   |-> IF started # {}
                         THEN \E p \in started : \E q \in Procs \ {p} : ~Ended(q)
                         ELSE hist.overlap,
           lastFetch |-> IF fetched # {} THEN CHOOSE p \in fetched : TRUE ELSE hist.lastFetch,
           lastSave  |-> IF saved # {} THEN CHOOSE p \in saved : TRUE ELSE hist.lastSave,
           version   |-> IF counting /\ saved # {} THEN hist.version + 1 ELSE hist.version,
           seen      |-> [p \in Procs |-> IF p \in read THEN hist.version ELSE hist.seen[p]]]

\* Runs are started one after another by the scheduler (one process).
Main == 1

Next ==
    \/ Start(Main) /\ Observe(FALSE)
    \/ FetchOk(Main) /\ Observe(FALSE)
    \/ FetchFail(Main) /\ Observe(FALSE)
    \/ Parse(Main) /\ Observe(FALSE)
    \/ Load(Main) /\ Observe(FALSE)
    \/ BaselineSave(Main) /\ Observe(FALSE)
    \/ BaselineSend(Main) /\ Observe(FALSE)
    \/ Diff(Main) /\ Observe(FALSE)
    \/ UpdateSend(Main) /\ Observe(FALSE)
    \/ UpdateSave(Main) /\ Observe(FALSE)

Spec == Init /\ [][Next]_vars

\* ------------------------------------------------------------- save_state, step by step
\* The steps of save_state as the operating system sees them, and the process
\* being killed between any two steps.

\* The baseline branch up to open(STATE_FILE, "w"), which empties the file.
BaselineOpen(p) ==
    /\ run[p].pc = "branch"
    /\ ~run[p].initialized
    /\ \E seen \in Sorted(run[p].ids_now) :
          LET state == NewState(Put(run[p].state[1], "initialized", TRUE),
                                seen, run[p].count_now)
          IN  run' = [run EXCEPT ![p].state = Some(state),
                                 ![p].pc = "baseline_write"]
    /\ file' = Truncated
    /\ UNCHANGED prev

\* The update branch up to open(STATE_FILE, "w").
UpdateOpen(p) ==
    /\ run[p].pc = "update_save"
    /\ \E seen \in Sorted(run[p].ids_now) :
          LET state == NewState(run[p].state[1], seen, run[p].count_now)
          IN  run' = [run EXCEPT ![p].state = Some(state),
                                 ![p].pc = "update_write"]
    /\ file' = Truncated
    /\ UNCHANGED prev

\* json.dump has written the beginning of the text.
WritePart(p) ==
    /\ run[p].pc \in {"baseline_write", "update_write"}
    /\ file = Truncated
    /\ file' = Partial
    /\ UNCHANGED <<run, prev>>

\* json.dump has written everything and the with block closes the file.
WriteAll(p) ==
    /\ run[p].pc \in {"baseline_write", "update_write"}
    /\ file' = save_state(run[p].state[1])
    /\ run' = [run EXCEPT ![p].saves = @ + 1,
                          ![p].pc = IF run[p].pc = "baseline_write"
                                    THEN "baseline_send" ELSE "done"]
    /\ UNCHANGED prev

\* The process is killed (power loss, SIGKILL) anywhere in main().
Crash(p) ==
    /\ ~Ended(p)
    /\ run' = [run EXCEPT ![p].pc = "failed",
                          ![p].exc = Some([type |-> "crash", cause |-> "kill"])]
    /\ UNCHANGED <<file, prev>>

NextCrash ==
    \/ Start(Main) /\ Observe(FALSE)
    \/ FetchOk(Main) /\ Observe(FALSE)
    \/ FetchFail(Main) /\ Observe(FALSE)
    \/ Parse(Main) /\ Observe(FALSE)
    \/ Load(Main) /\ Observe(FALSE)
    \/ BaselineOpen(Main) /\ Observe(FALSE)
    \/ BaselineSend(Main) /\ Observe(FALSE)
    \/ Diff(Main) /\ Observe(FALSE)
    \/ UpdateSend(Main) /\ Observe(FALSE)
    \/ UpdateOpen(Main) /\ Observe(FALSE)
    \/ WritePart(Main) /\ Observe(FALSE)
    \/ WriteAll(Main) /\ Observe(FALSE)
    \/ Crash(Main) /\ Observe(FALSE)

SpecCrash == Init /\ [][NextCrash]_vars

\* ------------------------------------------------------------- overlapping runs
\* Two processes run main() with nothing between them but the state file
\* (a run still under way when the scheduler starts the next one).  The
\* requests of fetch_html succeed here: a failed request touches neither the
\* file nor the messages.

\* Number of runs the scheduler starts.
MaxRaceRuns == 2
\* Largest number of links on the pages served to overlapping runs.
MaxRaceLinks == 1

\* The pages served to overlapping runs: no banner, few links.
RacePages == {page \in Pages : Len(page.hrefs) <= MaxRaceLinks /\ IsNone(page.banner)}

\* The record a first run leaves behind when the page shows no listing.
EmptyBaseline ==
    save_state(NewState(Put(DefaultState, "initialized", TRUE), <<>>, None))

\* The overlapping runs are the first ones (no file yet) or later ones (a
\* baseline record on disk).
InitRace ==
    /\ file \in {Absent, EmptyBaseline}
    /\ run = [p \in Procs |-> IdleRun]
    /\ prev = None
    /\ hist = Hist0

NextRace ==
    \E p \in Procs :
        \/ Start(p) /\ hist.starts < MaxRaceRuns /\ Observe(TRUE)
        \/ FetchOk(p) /\ run'[p].html[1] \in RacePages /\ Observe(TRUE)
        \/ Parse(p) /\ Observe(TRUE)
        \/ Load(p) /\ Observe(TRUE)
        \/ BaselineSave(p) /\ Observe(TRUE)
        \/ BaselineSend(p) /\ Observe(TRUE)
        \/ Diff(p) /\ Observe(TRUE)
        \/ UpdateSend(p) /\ Observe(TRUE)
        \/ UpdateSave(p) /\ Observe(TRUE)

SpecRace == InitRace /\ [][NextRace]_vars

\* ------------------------------------------------------------- properties
\* What the run p saw and what is on disk.
PersistedIds(f) == IF f.kind = "json" THEN SetOf(Get(f.value, "seen_ids", <<>>)) ELSE {}

PersistedCount(f) == IF f.kind = "json" THEN Get(f.value, "last_count", None) ELSE None

PersistedFlag(f) == IF f.kind = "json" THEN Get(f.value, "initialized", FALSE) ELSE FALSE

\* The record on disk holds the snapshot of run p.
FileReflects(p) ==
    /\ file.kind = "json"
    /\ PersistedIds(file) = run[p].ids_now
    /\ PersistedCount(file) = run[p].count_now

ExcType(p) == IF IsNone(run[p].exc) THEN "none" ELSE run[p].exc[1].type

NotifyFailed(p) == run[p].pc = "failed" /\ ExcType(p) = "notify"

\* Run p went through the baseline or the update branch to its end.
Reconciled(p) == run[p].pc = "done" \/ NotifyFailed(p)

NonDecreasing(q) == \A a, b \in DOMAIN q : a < b => IntOf(q[a]) <= IntOf(q[b])

StrictlyAscending(q) == \A a, b \in DOMAIN q : a < b => IntOf(q[a]) < IntOf(q[b])

CountParts(p) == {k \in DOMAIN run[p].parts : run[p].parts[k].kind = "count"}

\* The record run p started from is missing or says initialized = false.
PriorUninitialized(p) ==
    \/ run[p].file0.kind = "absent"
    \/ run[p].file0.kind = "json" /\ ~PersistedFlag(run[p].file0)

\* The record run p started from exists and is not a record of the schema.
Corrupt(f) ==
    \/ f.kind = "garbage"
    \/ f.kind = "json" /\ ~({"initialized", "seen_ids", "last_count"} \subseteq DOMAIN f.value)

\* C1 (as stated): save precedes notify in both branches, so whenever tg_send
\* has been called the snapshot was saved first, and after a failed tg_send
\* the record on disk holds the ids and count of the run's snapshot.
C1_SaveBeforeNotify ==
    \A p \in Procs :
        /\ run[p].sent # <<>> => run[p].saves >= 1
        /\ NotifyFailed(p) => FileReflects(p)

\* C2 (as stated): a run whose fetch, extraction and load succeeded and that
\* has ended, with its message sent, skipped or failed, called save_state
\* exactly once, and the record has initialized = true and the snapshot's ids
\* and count.
C2_OneSavePerRun ==
    \A p \in Procs :
        Reconciled(p) =>
            /\ run[p].saves = 1
            /\ PersistedFlag(file) = TRUE
            /\ FileReflects(p)

\* C3 (as stated): a run that observes the same snapshot (ids and count) as
\* the run before it sends no notification, whatever happened to the
\* earlier run's tg_send.
C3_NoRealert ==
    \A p \in Procs : run[p].repeat => run[p].sent = <<>>

\* C4 (as stated): in an initialized run, added is B - A and removed is A - B
\* (A the persisted ids, B the snapshot's), each without duplicates and in
\* strictly ascending numeric order.
C4_StrictlyAscendingDiff ==
    \A p \in Procs :
        run[p].diffed =>
            LET A == PersistedIds(run[p].file0)
                B == run[p].ids_now
            IN  /\ SetOf(run[p].new_ids) = B \ A
                /\ SetOf(run[p].removed_ids) = A \ B
                /\ StrictlyAscending(run[p].new_ids)
                /\ StrictlyAscending(run[p].removed_ids)

\* C4 (amended): in an initialized run, added is B - A and removed is A - B,
\* each id listed once, in ascending numeric order in which ids of equal
\* numeric value ("2", "02") may follow one another in either order.
C4_AscendingDiff ==
    \A p \in Procs :
        run[p].diffed =>
            LET A == PersistedIds(run[p].file0)
                B == run[p].ids_now
            IN  /\ SetOf(run[p].new_ids) = B \ A
                /\ SetOf(run[p].removed_ids) = A \ B
                /\ Len(run[p].new_ids) = Cardinality(B \ A)
                /\ Len(run[p].removed_ids) = Cardinality(A \ B)
                /\ NonDecreasing(run[p].new_ids)
                /\ NonDecreasing(run[p].removed_ids)

\* An update run that added "2" and "10" (in that order) and removed an id.
C4_Witness ==
    \E p \in Procs :
        /\ run[p].diffed
        /\ run[p].new_ids = << <<2>>, <<1, 0>> >>
        /\ run[p].removed_ids # <<>>

\* C5: in an initialized run a count change is reported iff the persisted
\* count and the snapshot's count are both present and different, and the
\* report carries (old, new); equal counts, present-to-absent and
\* absent-to-present report nothing.
C5_CountGating ==
    \A p \in Procs :
        run[p].diffed =>
            LET old == PersistedCount(run[p].file0)
                new == run[p].count_now
            IN  /\ (CountParts(p) # {}) <=>
                      (~IsNone(old) /\ ~IsNone(new) /\ old[1] # new[1])
                /\ Cardinality(CountParts(p)) <= 1
                /\ \A k \in CountParts(p) :
                      run[p].parts[k].old = old[1] /\ run[p].parts[k].new = new[1]

\* An update run that reports a count change, from a smaller to a larger count.
C5_Witness ==
    \E p \in Procs :
        /\ run[p].diffed
        /\ \E k \in CountParts(p) : run[p].parts[k].old < run[p].parts[k].new

\* C6: an initialized run calls tg_send once if the count change is reported
\* or an id was added or removed, and not at all otherwise; with the ids and
\* the count equal to the persisted ones it sends nothing.
C6_NotifyGating ==
    \A p \in Procs :
        (run[p].initialized /\ run[p].pc \in {"update_save", "done", "failed"}) =>
            LET A == PersistedIds(run[p].file0)
                B == run[p].ids_now
                old == PersistedCount(run[p].file0)
                new == run[p].count_now
                change == ~IsNone(old) /\ ~IsNone(new) /\ old[1] # new[1]
            IN  /\ Len(run[p].sent) = IF change \/ B \ A # {} \/ A \ B # {} THEN 1 ELSE 0
                /\ \A k \in DOMAIN run[p].sent : run[p].sent[k].text.kind = "update"
                /\ (A = B /\ old = new) => run[p].sent = <<>>

\* An update run that found the persisted ids and count again and ended
\* without a message.
C6_Witness ==
    \E p \in Procs :
        /\ run[p].initialized
        /\ run[p].pc = "done"
        /\ run[p].ids_now # {}
        /\ run[p].ids_now = PersistedIds(run[p].file0)
        /\ ~IsNone(run[p].count_now)
        /\ run[p].count_now = PersistedCount(run[p].file0)
        /\ run[p].sent = <<>>

\* C7: a run that loads a missing record or one with initialized = false
\* reports no added or removed id and no count change, calls tg_send exactly
\* once, with the baseline message, and persists initialized = true with the
\* snapshot's ids and count, whatever the snapshot holds.
C7_Baseline ==
    \A p \in Procs :
        (PriorUninitialized(p) /\ run[p].loads = 1) =>
            /\ ~run[p].diffed
            /\ run[p].new_ids = <<>> /\ run[p].removed_ids = <<>> /\ run[p].parts = <<>>
            /\ Ended(p) =>
                  /\ Len(run[p].sent) = 1
                  /\ run[p].sent[1].text.kind = "initialized"
                  /\ run[p].saves = 1
                  /\ PersistedFlag(file) = TRUE
                  /\ FileReflects(p)

\* A baseline run on the empty snapshot (no ids, count 0) that has ended.
C7_Witness ==
    \E p \in Procs :
        /\ PriorUninitialized(p)
        /\ run[p].loads = 1
        /\ run[p].pc = "done"
        /\ run[p].ids_now = {}
        /\ run[p].count_now = Some(0)

\* C8: when all 3 requests fail, fetch_html raises the third failure, the run
\* ends there, and it has not called load_state or save_state, has computed
\* no diff, has sent nothing, and the record is the one the run started with.
C8_FetchFailure ==
    \A p \in Procs :
        /\ Len(run[p].failures) = 3 =>
              /\ run[p].pc = "failed"
              /\ ExcType(p) = "fetch"
              /\ run[p].exc[1].cause = run[p].failures[3]
        /\ ExcType(p) = "fetch" =>
              /\ Len(run[p].failures) = 3
              /\ run[p].loads = 0
              /\ run[p].saves = 0
              /\ ~run[p].diffed
              /\ run[p].sent = <<>>
              /\ file = run[p].file0

\* A run on an initialized record whose three requests failed, the first and
\* the third for different reasons.
C8_Witness ==
    \E p \in Procs :
        /\ ExcType(p) = "fetch"
        /\ run[p].failures[1] # run[p].failures[3]
        /\ PersistedFlag(file) = TRUE

\* C9: fetch_html makes at most 3 requests; once a request succeeded it
\* makes no other and returns the page of that request unchanged, having
\* slept 2*k after the k-th failure; after two failures and a success it
\* has slept exactly twice, 2 and then 4.
C9_BoundedRetry ==
    \A p \in Procs :
        /\ run[p].requests <= 3
        /\ ~IsNone(run[p].html) =>
              /\ run[p].html = run[p].served
              /\ run[p].requests = Len(run[p].failures) + 1
              /\ Len(run[p].waits) = Len(run[p].failures)
              /\ \A k \in DOMAIN run[p].waits : run[p].waits[k] = 2 * k
              /\ Len(run[p].failures) = 2 => run[p].waits = <<2, 4>>

\* A fetch that succeeded at the third request.
C9_Witness ==
    \E p \in Procs :
        /\ ~IsNone(run[p].html)
        /\ run[p].requests = 3
        /\ Len(run[p].failures) = 2

\* C10 (as stated): a run that finds a record that is not a record of the
\* schema fails at load_state: it saves nothing, sends nothing, and never
\* goes on as a baseline run.
C10_CorruptIsFatal ==
    \A p \in Procs :
        (Corrupt(run[p].file0) /\ run[p].pc # "idle") =>
            /\ run[p].saves = 0
            /\ run[p].sent = <<>>
            /\ run[p].loads = 1 => (run[p].pc = "failed" /\ ExcType(p) = "state")

\* C12: once the record on disk has initialized = true, every later record
\* has it too, over runs that succeed or fail at fetch, load or notify; a
\* run that has saved leaves initialized = true on disk.
C12_InitializedMonotonic ==
    /\ [](\A p \in Procs : run[p].saves >= 1 => PersistedFlag(file) = TRUE)
    /\ [][PersistedFlag(file) = TRUE => PersistedFlag(file') = TRUE]_vars

\* An update run on an initialized record that has written the record again.
C12_Witness ==
    \E p \in Procs :
        /\ PersistedFlag(run[p].file0) = TRUE
        /\ run[p].saves = 1
        /\ run[p].pc = "done"
        /\ file # run[p].file0

\* C13 (as stated): fetch_html sleeps 2*n after failed attempt n only when
\* another attempt follows, so it never sleeps more than twice and a fetch
\* whose 3 attempts failed has slept exactly 2 and 4 when it raises.
C13_NoWaitAfterLastAttempt ==
    \A p \in Procs :
        /\ Len(run[p].waits) <= 2
        /\ ExcType(p) = "fetch" => run[p].waits = <<2, 4>>

\* The kinds of the blocks of a message, in the order they appear.
Kinds(parts) == [k \in DOMAIN parts |-> parts[k].kind]

\* The blocks a report has, in the order count, new, gone.
ExpectedKinds(change, added, removed) ==
    (IF change THEN <<"count">> ELSE <<>>)
    \o (IF added # {} THEN <<"new">> ELSE <<>>)
    \o (IF removed # {} THEN <<"gone">> ELSE <<>>)

\* C15: the update message has one block for each non-empty item of count
\* change, added ids, removed ids, and none for an empty one, in that order;
\* the added block lists every added id and the removed block every removed
\* id, each in ascending numeric order.
C15_MessageComposition ==
    \A p \in Procs :
        \A m \in DOMAIN run[p].sent :
            run[p].sent[m].text.kind = "update" =>
                LET parts == run[p].sent[m].text.parts
                    A == PersistedIds(run[p].file0)
                    B == run[p].ids_now
                    old == PersistedCount(run[p].file0)
                    new == run[p].count_now
                    change == ~IsNone(old) /\ ~IsNone(new) /\ old[1] # new[1]
                IN  /\ Kinds(parts) = ExpectedKinds(change, B \ A, A \ B)
                    /\ \A k \in DOMAIN parts :
                          /\ parts[k].kind = "count" =>
                                parts[k].old = old[1] /\ parts[k].new = new[1]
                          /\ parts[k].kind = "new" =>
                                /\ SetOf(parts[k].links) = B \ A
                                /\ parts[k].n = Cardinality(B \ A)
                                /\ Len(parts[k].links) = Cardinality(B \ A)
                                /\ NonDecreasing(parts[k].links)
                          /\ parts[k].kind = "gone" =>
                                /\ SetOf(parts[k].ids) = A \ B
                                /\ parts[k].n = Cardinality(A \ B)
                                /\ Len(parts[k].ids) = Cardinality(A \ B)
                                /\ NonDecreasing(parts[k].ids)

\* An update message with all three blocks, two ids added.
C15_Witness ==
    \E p \in Procs :
        /\ Len(run[p].sent) = 1
        /\ run[p].sent[1].text.kind = "update"
        /\ Len(run[p].sent[1].text.parts) = 3
        /\ Len(run[p].new_ids) = 2

C11_CrashAtomicSave ==
    \A p \in Procs :
        ExcType(p) = "crash" =>
            \/ file = run[p].file0
            \/ file.kind = "json" /\ Some(file.value) = run[p].state

\* A baseline message is among the messages run p handed to tg_send.
Greeted(p) == \E m \in DOMAIN run[p].sent : run[p].sent[m].text.kind = "initialized"

\* C14: over runs that follow one another, the baseline message is sent at
\* most once, and only by a run before which no run had loaded the record;
\* every run that loads the record after such a run takes the update branch,
\* whether or not the baseline message was delivered.
C14_BaselineOnce ==
    \A p \in Procs :
        /\ hist.baselines <= 1
        /\ Greeted(p) => ~hist.priorLoad
        /\ (hist.priorLoad /\ ~IsNone(run[p].state)) => run[p].initialized

\* A later run, after the one baseline message, that went through the update
\* branch and sent an update.
C14_Witness ==
    \E p \in Procs :
        /\ hist.priorLoad
        /\ hist.baselines = 1
        /\ run[p].pc = "done"
        /\ run[p].diffed
        /\ Len(run[p].sent) = 1

\* C17: in an initialized run with something to report the record is written
\* only after tg_send returned; when tg_send fails the record is the one the
\* run started from, and the next run that sees the same snapshot computes
\* the same report and sends it.
C17_NoAbsorbWithoutAlert ==
    \A p \in Procs :
        /\ (run[p].diffed /\ run[p].parts # <<>> /\ run[p].saves >= 1) =>
              (Len(run[p].sent) = 1 /\ run[p].sent[1].ok)
        /\ (run[p].diffed /\ NotifyFailed(p)) =>
              (file = run[p].file0 /\ run[p].saves = 0)
        /\ (~IsNone(hist.pending) /\ run[p].repeat /\ run[p].diffed /\ ~Ended(p)) =>
              /\ Delta(run[p]) = hist.pending[1]
              /\ run[p].parts # <<>>
              /\ run[p].pc = "update_save" =>
                    (Len(run[p].sent) = 1 /\ run[p].sent[1].text = UpdateMsg(run[p].parts))

\* A run that found the snapshot of the failed run again and delivered the
\* report that had been lost.
C17_Witness ==
    \E p \in Procs :
        /\ ~IsNone(hist.pending)
        /\ run[p].repeat
        /\ run[p].pc = "update_save"
        /\ Len(run[p].sent) = 1
        /\ run[p].sent[1].ok

\* The messages run p delivered.
Delivered(p) == {run[p].sent[m].text : m \in {k \in DOMAIN run[p].sent : run[p].sent[k].ok}}

\* Both processes read the same version of the record and both delivered the
\* same message about it: one change, notified twice.
DoubleAlert ==
    \E p, q \in Procs :
        /\ p # q
        /\ ~IsNone(run[p].state) /\ ~IsNone(run[q].state)
        /\ hist.seen[p] = hist.seen[q]
        /\ \E a \in Delivered(p), b \in Delivered(q) : a.kind = b.kind /\ a = b

\* Both processes saved, and the record on disk is the one of the process
\* that fetched first: the older snapshot has replaced the newer one.
StaleOverwrite ==
    \E p, q \in Procs :
        /\ p # q
        /\ run[p].pc = "done" /\ run[q].pc = "done"
        /\ run[p].saves = 1 /\ run[q].saves = 1
        /\ hist.lastFetch = q /\ hist.lastSave = p
        /\ FileReflects(p) /\ ~FileReflects(q)

\* C16: a change notified twice, or an older snapshot replacing a newer one
\* on disk, happens only to runs that overlapped; runs that follow one
\* another show neither.
C16_RaceNeedsOverlap ==
    (DoubleAlert \/ StaleOverwrite) => hist.overlap

\* Two overlapping first runs: both delivered the same baseline message and
\* the snapshot fetched first is the one left on disk.
C16_Witness ==
    /\ hist.overlap
    /\ DoubleAlert
    /\ StaleOverwrite
    /\ \A p \in Procs : Greeted(p)

====
